---- MODULE Spec2Model ----
(***************************************************************************)
(* Model of src/main_bot.py: the connectDB dispatch layer, the three       *)
(* backend connectors, and the in-memory session registry                  *)
(* (db_connections, session_schemas) with its HTTP handlers.               *)
(*                                                                         *)
(* Strings that the code takes apart or puts together (dbtype, host,       *)
(* schema, session ids) are sequences of one-character strings.  JSON      *)
(* values are tagged records [t, v]: "str" (v = <<s>>), "null" (v = <<>>), *)
(* "list" (v = the items), "dict" (v = the <<key, value>> pairs in         *)
(* insertion order, as a Python dict keeps them).                          *)
(***************************************************************************)
EXTENDS Integers, Sequences, FiniteSets, TLC

VARIABLES db_connections, session_schemas, ev, live, loop

vars == <<db_connections, session_schemas, ev, live, loop>>

registry == <<db_connections, session_schemas>>

-----------------------------------------------------------------------------
(* Strings *)

Whitespace == {" ", "\t", "\n"}

LowerChar(c) ==
  CASE c = "P" -> "p" [] c = "O" -> "o" [] c = "S" -> "s" [] c = "T" -> "t"
    [] c = "G" -> "g" [] c = "R" -> "r" [] c = "E" -> "e" [] c = "Q" -> "q"
    [] c = "L" -> "l" [] c = "M" -> "m" [] c = "Y" -> "y" [] c = "N" -> "n"
    [] c = "D" -> "d" [] c = "B" -> "b" [] c = "A" -> "a" [] c = "C" -> "c"
    [] OTHER -> c

\* str.lower()
Lower(s) == [i \in 1..Len(s) |-> LowerChar(s[i])]

RECURSIVE LStrip(_)
LStrip(s) == IF s /= <<>> /\ Head(s) \in Whitespace THEN LStrip(Tail(s)) ELSE s

RECURSIVE RStrip(_)
RStrip(s) ==
  IF s /= <<>> /\ s[Len(s)] \in Whitespace
    THEN RStrip(SubSeq(s, 1, Len(s) - 1)) ELSE s

\* str.strip()
Strip(s) == RStrip(LStrip(s))

Digit(d) ==
  CASE d = 0 -> "0" [] d = 1 -> "1" [] d = 2 -> "2" [] d = 3 -> "3"
    [] d = 4 -> "4" [] d = 5 -> "5" [] d = 6 -> "6" [] d = 7 -> "7"
    [] d = 8 -> "8" [] d = 9 -> "9"

\* the decimal form an f-string gives a non-negative int
RECURSIVE IntStr(_)
IntStr(n) == IF n < 10 THEN <<Digit(n)>> ELSE IntStr(n \div 10) \o <<Digit(n % 10)>>

Postgresql == <<"p", "o", "s", "t", "g", "r", "e", "s", "q", "l">>
Mysql == <<"m", "y", "s", "q", "l">>
Mongodb == <<"m", "o", "n", "g", "o", "d", "b">>

SupportedDatabases == {Postgresql, Mysql, Mongodb}

\* dbtype = connection.dbtype.lower().strip()
NormalizeDbType(raw) == Strip(Lower(raw))

\* session_id = f"{connection.host}:{connection.port}:{connection.schema}"
\* a session id that tells the users of one target apart
SessionId_per_user(connection) ==
  connection.host \o <<":">> \o IntStr(connection.port) \o <<":">> \o connection.schema
    \o <<"@", connection.username>>

SessionId(connection) ==
  connection.host \o <<":">> \o IntStr(connection.port) \o <<":">> \o connection.schema

-----------------------------------------------------------------------------
(* JSON values *)

JStr(s) == [t |-> "str", v |-> <<s>>]
JNull == [t |-> "null", v |-> <<>>]
JList(items) == [t |-> "list", v |-> items]
JDict(pairs) == [t |-> "dict", v |-> pairs]

\* list(d.keys())
Keys(d) == [i \in 1..Len(d.v) |-> d.v[i][1]]

\* key in d
HasKey(d, k) == \E i \in 1..Len(d.v) : d.v[i][1] = k

\* d[k] = val on a dict: replaces the value in place, or appends the key
DictSet(d, k, val) ==
  IF HasKey(d, k)
    THEN JDict([i \in 1..Len(d.v) |-> IF d.v[i][1] = k THEN <<k, val>> ELSE d.v[i]])
    ELSE JDict(Append(d.v, <<k, val>>))

-----------------------------------------------------------------------------
(* Exceptions, completions and responses *)

\* an exception object; status_code is 0 for anything but an HTTPException
Exc(cls, msg) == [cls |-> cls, status_code |-> 0, detail |-> <<msg>>]

HTTPException(status_code, detail) ==
  [cls |-> "HTTPException", status_code |-> status_code, detail |-> detail]

\* how a call ends: it returns val, or raises the exception val
Return(val) == [kind |-> "return", val |-> val]
Raise(exc) == [kind |-> "raise", val |-> exc]

\* http_exception_handler, and the 200 reply FastAPI gives a returned value
Response(completion) ==
  IF completion.kind = "raise"
    THEN [status |-> completion.val.status_code,
          body |-> [error |-> completion.val.detail,
                    status_code |-> completion.val.status_code]]
    ELSE [status |-> 200, body |-> completion.val]

-----------------------------------------------------------------------------
(* The backends.  A backend oracle o is what the target database does     *)
(* during one connect call: o.db is its content, o.fail_at the number of  *)
(* the backend call (counted from 1 within the request) that raises       *)
(* o.err, 0 when none does.                                               *)

\* the number of a request's backend calls up to which one may fail
MaxCalls == 6

SystemNamespaces == {"pg_catalog", "information_schema"}

Row(name, type, nullable, default, maxlen, pos) ==
  [column_name |-> JStr(name), data_type |-> JStr(type), is_nullable |-> JStr(nullable),
   column_default |-> default, character_maximum_length |-> maxlen,
   ordinal_position |-> pos]

IdRow == Row("id", "integer", "NO", JNull, JNull, 1)
NameRow == Row("name", "character varying", "YES", JStr("'anon'"), JStr("50"), 2)

\* a column whose default is the empty string
NoteRow == Row("note", "varchar", "YES", JStr(""), JStr("10"), 3)

\* a columns query without its ORDER BY clause
Unordered(rows) == rows

\* ORDER BY ordinal_position
RECURSIVE SortByOrdinal(_)
SortByOrdinal(rows) ==
  IF rows = <<>> THEN <<>>
  ELSE LET i == CHOOSE i \in 1..Len(rows) :
                  \A j \in 1..Len(rows) :
                     rows[i].ordinal_position < rows[j].ordinal_position
                       \/ (rows[i].ordinal_position = rows[j].ordinal_position /\ i <= j)
       IN <<rows[i]>> \o SortByOrdinal(SubSeq(rows, 1, i - 1) \o SubSeq(rows, i + 1, Len(rows)))

\* bool(x) of a value the driver hands back
Truthy(j) == j.t /= "null" /\ j.v /= <<>> /\ j.v /= <<"">>

\* str(x) of a text value
Str(j) == j

\* the column descriptor the relational connectors build from a row
RelationalColumn(col) ==
  JDict(<< <<"column_name", col.column_name>>,
           <<"data_type", col.data_type>>,
           <<"is_nullable", col.is_nullable>>,
           <<"default_value", IF Truthy(col.column_default) THEN Str(col.column_default) ELSE JNull>>,
           <<"max_length", col.character_maximum_length>> >>)

RelationalColumns(rows) == JList([i \in 1..Len(rows) |-> RelationalColumn(rows[i])])

\* a database of one namespace without tables beside a system namespace, and
\* one of two base tables and a view in one namespace
PgDatabases ==
  { [namespaces |-> <<"information_schema", "app">>, tables |-> <<>>, columns |-> <<>>],
    [namespaces |-> <<"pg_catalog", "public">>,
     tables |-> << [table_name |-> "t1", table_type |-> "BASE TABLE"],
                   [table_name |-> "v1", table_type |-> "VIEW"],
                   [table_name |-> "t2", table_type |-> "BASE TABLE"] >>,
     columns |-> <<NameRow, IdRow>>] }

PgErrors == {Exc("asyncpg.PostgresError", "pg"), Exc("OSError", "os")}

IsPostgresError(e) == e.cls = "asyncpg.PostgresError"

\* schemas_query: every namespace but the two system ones
QuerySchemata(db) == SelectSeq(db.namespaces, LAMBDA n : n \notin SystemNamespaces)

\* tables_query: the base tables of a namespace
QueryTables(db, schema_name) ==
  LET base == SelectSeq(db.tables, LAMBDA tb : tb.table_type = "BASE TABLE")
  IN [i \in 1..Len(base) |-> base[i].table_name]

\* the columns query
QueryColumns(db, table_name) == SortByOrdinal(db.columns)

\* for table_name in table_names (one namespace): n backend calls were made
\* before; failed names the call that raised, "" when none did
RECURSIVE PgTablesLoop(_, _, _, _)
PgTablesLoop(o, table_names, n, acc) ==
  IF table_names = <<>> THEN [failed |-> "", n |-> n, info |-> acc]
  ELSE IF o.fail_at = n + 1 THEN [failed |-> "columns", n |-> n + 1, info |-> acc]
  ELSE PgTablesLoop(o, Tail(table_names), n + 1,
                    DictSet(acc, Head(table_names),
                            RelationalColumns(QueryColumns(o.db, Head(table_names)))))

\* for schema_name in schema_names; PgSchemaDone takes up the loop after the
\* tables of one namespace, whose walk is inner
RECURSIVE PgSchemasLoop(_, _, _, _)
RECURSIVE PgSchemaDone(_, _, _, _)
PgSchemasLoop(o, schema_names, n, table_info) ==
  IF schema_names = <<>> THEN [failed |-> "", n |-> n, info |-> table_info]
  ELSE IF o.fail_at = n + 1 THEN [failed |-> "tables", n |-> n + 1, info |-> table_info]
  ELSE PgSchemaDone(o, schema_names, table_info,
                    PgTablesLoop(o, QueryTables(o.db, Head(schema_names)), n + 1, JDict(<<>>)))

PgSchemaDone(o, schema_names, table_info, inner) ==
  IF inner.failed /= ""
    THEN [failed |-> inner.failed, n |-> inner.n,
          info |-> DictSet(table_info, Head(schema_names), inner.info)]
    ELSE PgSchemasLoop(o, Tail(schema_names), inner.n,
                       DictSet(table_info, Head(schema_names), inner.info))

\* what a connector hands back: how it ended, the registry entry it wrote (at
\* most one), how many backend connections it opened and released, how many
\* backend calls it made and which of them raised
ConnectorResult(completion, put, opened, released, calls, failed) ==
  [completion |-> completion, put |-> put, opened |-> opened, released |-> released,
   calls |-> calls, failed |-> failed]

SuccessBody(session_id, table_info) ==
  [status |-> "success", session_id |-> session_id, schema_info |-> table_info]

\* a connector that stores the schema map as it was before introspection
Put_before_introspection(connection, table_info) ==
  <<[session_id |-> SessionId(connection), connection |-> connection, schema |-> JDict(<<>>)]>>

\* db_connections[session_id] = connection.dict()
\* session_schemas[session_id] = table_info
Put(connection, table_info) ==
  <<[session_id |-> SessionId(connection), connection |-> connection, schema |-> table_info]>>

\* except asyncpg.PostgresError: the HTTPException that takes its place
PgExcept(e) ==
  IF IsPostgresError(e)
    THEN Raise(HTTPException(500, <<"PostgreSQL error: ">> \o e.detail))
    ELSE Raise(e)

\* the try body after the connection is there: r is how far it got
PgIntrospect(o) ==
  IF o.fail_at = 2
    THEN [failed |-> "schemata", n |-> 2, info |-> JDict(<<>>)]
    ELSE PgSchemasLoop(o, QuerySchemata(o.db), 2, JDict(<<>>))

\* a connector that closes its connection at the end of the try body, without
\* a finally clause
PgNoFinally(connection, o, r) ==
  ConnectorResult(
    IF r.failed /= "" \/ o.fail_at = r.n + 1 THEN PgExcept(o.err)
    ELSE Return(SuccessBody(SessionId(connection), r.info)),
    IF r.failed = "" THEN Put(connection, r.info) ELSE <<>>,
    1, IF r.failed = "" THEN 1 ELSE 0,
    IF r.failed = "" THEN r.n + 1 ELSE r.n,
    IF r.failed /= "" THEN r.failed ELSE IF o.fail_at = r.n + 1 THEN "close" ELSE "")

\* the end of the try body, the except clause, and the finally clause:
\* await conn.close() lets the connection go whether or not it raises, and
\* what it raises takes the place of the call's result
PgFinally(connection, o, r) ==
  ConnectorResult(
    IF o.fail_at = r.n + 1 THEN Raise(o.err)
    ELSE IF r.failed = "" THEN Return(SuccessBody(SessionId(connection), r.info))
    ELSE PgExcept(o.err),
    IF r.failed = "" THEN Put(connection, r.info) ELSE <<>>,
    1, 1, r.n + 1,
    IF r.failed /= "" THEN r.failed ELSE IF o.fail_at = r.n + 1 THEN "close" ELSE "")

connect_postgresql(connection, o) ==
  IF o.fail_at = 1
    THEN \* asyncpg.connect raised: conn is None, nothing to close
         ConnectorResult(PgExcept(o.err), <<>>, 0, 0, 1, "connect")
    ELSE PgFinally(connection, o, PgIntrospect(o))

MysqlDatabases ==
  { [tables |-> <<>>, columns |-> <<>>],
    [tables |-> << JDict(<< <<"Tables_in_db", JStr("t1")>> >>),
                   JDict(<< <<"Tables_in_db", JStr("t2")>> >>) >>,
     columns |-> <<NameRow, NoteRow, IdRow>>] }

MysqlErrors == {Exc("aiomysql.Error", "my"), Exc("OSError", "os")}

IsMysqlError(e) == e.cls = "aiomysql.Error"

\* table_names = [list(table.values())[0] for table in tables]
ShowTables(db) == [i \in 1..Len(db.tables) |-> db.tables[i].v[1][2].v[1]]

\* the INFORMATION_SCHEMA.COLUMNS query, whose aliases name the row's fields as
\* the descriptor's: default_value is COLUMN_DEFAULT, max_length is
\* CHARACTER_MAXIMUM_LENGTH
MysqlQueryColumns(db, table_name) == SortByOrdinal(db.columns)

\* for table_name in table_names
RECURSIVE MysqlTablesLoop(_, _, _, _)
MysqlTablesLoop(o, table_names, n, table_info) ==
  IF table_names = <<>> THEN [failed |-> "", n |-> n, info |-> table_info]
  ELSE IF o.fail_at = n + 1 THEN [failed |-> "columns", n |-> n + 1, info |-> table_info]
  ELSE MysqlTablesLoop(o, Tail(table_names), n + 1,
                       DictSet(table_info, Head(table_names),
                               RelationalColumns(MysqlQueryColumns(o.db, Head(table_names)))))

\* except aiomysql.Error: the HTTPException that takes its place
MysqlExcept(e) ==
  IF IsMysqlError(e)
    THEN Raise(HTTPException(500, <<"MySQL error: ">> \o e.detail))
    ELSE Raise(e)

\* the try body after the connection is there
MysqlIntrospect(o) ==
  IF o.fail_at = 2
    THEN [failed |-> "tables", n |-> 2, info |-> JDict(<<>>)]
    ELSE MysqlTablesLoop(o, ShowTables(o.db), 2, JDict(<<>>))

\* a connector that writes the registry in its finally clause, with whatever
\* it has collected
MysqlPutInFinally(connection, o, r) ==
  ConnectorResult(
    IF r.failed = "" THEN Return(SuccessBody(SessionId(connection), r.info))
    ELSE MysqlExcept(o.err),
    Put(connection, r.info), 1, 1, r.n, r.failed)

\* the end of the try body, the except clause, and the finally clause:
\* conn.close(), a plain call that lets the socket go
MysqlFinally(connection, o, r) ==
  ConnectorResult(
    IF r.failed = "" THEN Return(SuccessBody(SessionId(connection), r.info))
    ELSE MysqlExcept(o.err),
    IF r.failed = "" THEN Put(connection, r.info) ELSE <<>>,
    1, 1, r.n, r.failed)

connect_mysql(connection, o) ==
  IF o.fail_at = 1
    THEN \* aiomysql.connect raised: conn is None, nothing to close
         ConnectorResult(MysqlExcept(o.err), <<>>, 0, 0, 1, "connect")
    ELSE MysqlFinally(connection, o, MysqlIntrospect(o))

\* a sampled document: its fields in insertion order, each with the runtime
\* type name of its value; <<>> stands for find_one() returning None
MongoDatabases ==
  { [collections |-> <<>>, docs |-> <<>>],
    [collections |-> <<"c1", "c2">>,
     docs |-> << <<>>, << <<"_id", "ObjectId">>, <<"a", "int">> >> >>] }

MongoErrors == {Exc("pymongo.errors.PyMongoError", "mg")}

\* descriptors that take type(key).__name__ for the type of the value
MongoColumnsTypeOfKey(sample_doc) ==
  JList([i \in 1..Len(sample_doc) |->
           JDict(<< <<"column_name", JStr(sample_doc[i][1])>>,
                    <<"data_type", JStr("str")>>,
                    <<"is_nullable", JStr("YES")>>,
                    <<"default_value", JNull>>,
                    <<"max_length", JNull>> >>)])

\* one descriptor per key of the sampled document
MongoColumns(sample_doc) ==
  JList([i \in 1..Len(sample_doc) |->
           JDict(<< <<"column_name", JStr(sample_doc[i][1])>>,
                    <<"data_type", JStr(sample_doc[i][2])>>,
                    <<"is_nullable", JStr("YES")>>,
                    <<"default_value", JNull>>,
                    <<"max_length", JNull>> >>)])

\* for collection_name in collection_names; i is the collection's index
RECURSIVE MongoCollectionsLoop(_, _, _, _)
MongoCollectionsLoop(o, i, n, table_info) ==
  IF i > Len(o.db.collections) THEN [failed |-> "", n |-> n, info |-> table_info]
  ELSE IF o.fail_at = n + 1 THEN [failed |-> "columns", n |-> n + 1, info |-> table_info]
  ELSE LET sample_doc == o.db.docs[i]
       IN MongoCollectionsLoop(o, i + 1, n + 1,
            DictSet(table_info, o.db.collections[i],
                    IF sample_doc /= <<>> THEN MongoColumns(sample_doc) ELSE JList(<<>>)))

\* except Exception: the HTTPException that takes its place
MongoExcept(e) == Raise(HTTPException(500, <<"MongoDB connection error: ">> \o e.detail))

\* the try body after the client is there
MongoIntrospect(o) ==
  IF o.fail_at = 2
    THEN \* await client.server_info() raised
         [failed |-> "ping", n |-> 2, info |-> JDict(<<>>)]
  ELSE IF o.fail_at = 3
    THEN \* await db.list_collection_names() raised
         [failed |-> "tables", n |-> 3, info |-> JDict(<<>>)]
  ELSE MongoCollectionsLoop(o, 1, 3, JDict(<<>>))

\* the end of the try body, the except clause, and the finally clause:
\* client.close()
MongoFinally(connection, o, r) ==
  ConnectorResult(
    IF r.failed = "" THEN Return(SuccessBody(SessionId(connection), r.info))
    ELSE MongoExcept(o.err),
    IF r.failed = "" THEN Put(connection, r.info) ELSE <<>>,
    1, 1, r.n, r.failed)

connect_mongodb(connection, o) ==
  IF o.fail_at = 1
    THEN \* AsyncIOMotorClient(...) raised: client is None, nothing to close
         ConnectorResult(MongoExcept(o.err), <<>>, 0, 0, 1, "connect")
    ELSE MongoFinally(connection, o, MongoIntrospect(o))

-----------------------------------------------------------------------------
(* The dispatch layer *)

UnsupportedDetail(raw) ==
  <<"Unsupported database type: '", raw,
    "'. Supported types are: postgresql, mysql, mongodb">>

NoError == Exc("none", "none")

Unfailing(db) == [db |-> db, fail_at |-> 0, err |-> NoError]

\* a call of the connector that is made a second time when it raises
InvokeWithRetry(name, r) ==
  [result |-> r,
   invoked |-> IF r.completion.kind = "raise" THEN <<name, name>> ELSE <<name>>]

\* a call of the connector of that name, and what it came to
Invoke(name, r) == [result |-> r, invoked |-> <<name>>]

\* the if/elif chain: the connector the dbtype selects, called once, or the
\* 400 of an unsupported dbtype
Dispatch(connection, o, dbtype) ==
  IF dbtype = Postgresql THEN Invoke("connect_postgresql", connect_postgresql(connection, o))
  ELSE IF dbtype = Mysql THEN Invoke("connect_mysql", connect_mysql(connection, o))
  ELSE IF dbtype = Mongodb THEN Invoke("connect_mongodb", connect_mongodb(connection, o))
  ELSE [result |-> ConnectorResult(
                     Raise(HTTPException(400, UnsupportedDetail(connection.dbtype))),
                     <<>>, 0, 0, 0, ""),
        invoked |-> <<>>]

\* except clauses without "except HTTPException: raise", whose catch-all
\* turns every exception into the generic 500
ExceptCatchAll(d) ==
  [completion |->
     IF d.result.completion.kind = "raise"
       THEN Raise(HTTPException(500, <<"Database connection failed: ">>
                                       \o d.result.completion.val.detail))
       ELSE d.result.completion,
   put |-> d.result.put, opened |-> d.result.opened, released |-> d.result.released,
   calls |-> d.result.calls, failed |-> d.result.failed, invoked |-> d.invoked]

\* except HTTPException: raise; except Exception as e: the generic 500
Except(d) ==
  [completion |->
     IF d.result.completion.kind = "raise" /\ d.result.completion.val.cls /= "HTTPException"
       THEN Raise(HTTPException(500, <<"Database connection failed: ">>
                                       \o d.result.completion.val.detail))
       ELSE d.result.completion,
   put |-> d.result.put, opened |-> d.result.opened, released |-> d.result.released,
   calls |-> d.result.calls, failed |-> d.result.failed, invoked |-> d.invoked]

\* connect_database: the result of the connector it picked, with the
\* connector's name
connect_database(connection, o) ==
  Except(Dispatch(connection, o, NormalizeDbType(connection.dbtype)))

-----------------------------------------------------------------------------
(* Requests *)

MaxPayloadTables == 2
MaxPayloadColumns == 2

SeqsUpTo(S, n) == UNION {[1..k -> S] : k \in 0..n}

Hosts == {<<"d", "b">>}
Ports == {5432}
Schemas == {<<"a">>, <<"b">>}

Credentials ==
  { [username |-> "alice", password |-> "pw1", tableNames |-> <<>>],
    [username |-> "bob", password |-> "pw2", tableNames |-> <<"t1">>] }

\* "PostgreSQL ", " mysql", "MongoDB", "oracle"
DbTypes ==
  { <<"P", "o", "s", "t", "g", "r", "e", "S", "Q", "L", " ">>,
    <<" ", "m", "y", "s", "q", "l">>,
    <<"M", "o", "n", "g", "o", "D", "B">>,
    <<"o", "r", "a", "c", "l", "e">> }

DatabaseConnection(host, port, cred, schema, dbtype) ==
  [host |-> host, port |-> port, username |-> cred.username, password |-> cred.password,
   schema |-> schema, tableNames |-> cred.tableNames, dbtype |-> dbtype]

AllConnections ==
  {DatabaseConnection(h, p, c, s, d) :
     h \in Hosts, p \in Ports, c \in Credentials, s \in Schemas, d \in DbTypes}

\* the requests of alice for database a, one of bob for it, and one for
\* database b
Connections ==
  {c \in AllConnections :
     \/ c.schema = <<"a">> /\ c.username = "alice"
     \/ c.schema = <<"a">> /\ c.username = "bob" /\ NormalizeDbType(c.dbtype) = Mysql
     \/ c.schema = <<"b">> /\ c.username = "alice" /\ NormalizeDbType(c.dbtype) = Mongodb}

\* one request
FewConnections ==
  {c \in AllConnections :
     c.schema = <<"a">> /\ c.username = "alice" /\ NormalizeDbType(c.dbtype) = Mysql}

NoSession == <<"n", "o", "n", "e">>

\* session ids a caller may name: every derivable one, and one no connect derives
SessionIds == {SessionId(c) : c \in Connections} \cup {NoSession}

\* the session id of that request
FewSessionIds == {SessionId(c) : c \in FewConnections}

PayloadTables == {"t1", "t2"}

\* a column with a name, a column without one, and a JSON string where a column
\* object belongs
PayloadColumns ==
  { JDict(<< <<"column_name", JStr("id")>> >>),
    JDict(<< <<"data_type", JStr("integer")>> >>),
    JStr("id") }

\* a list of columns, or a JSON string where the list belongs
PayloadValues ==
  {JList(l) : l \in SeqsUpTo(PayloadColumns, MaxPayloadColumns)} \cup {JStr("none")}

PayloadKeys ==
  {ks \in SeqsUpTo(PayloadTables, MaxPayloadTables) :
     \A i, j \in 1..Len(ks) : i /= j => ks[i] /= ks[j]}

RECURSIVE Sum(_)
Sum(ns) == IF ns = <<>> THEN 0 ELSE Head(ns) + Sum(Tail(ns))

\* the columns of a payload, all tables together
PayloadSize(p) == Sum([i \in 1..Len(p.v) |-> IF p.v[i][2].t = "list" THEN Len(p.v[i][2].v) ELSE 0])

\* every payload of at most MaxPayloadTables tables and MaxPayloadColumns columns
Payloads ==
  {p \in UNION { {JDict([i \in 1..Len(ks) |-> <<ks[i], vs[i]>>]) :
                    vs \in [1..Len(ks) -> PayloadValues]} : ks \in PayloadKeys } :
     PayloadSize(p) <= MaxPayloadColumns}

\* the empty payload, and those of table t1 with one column object
FewPayloads ==
  {p \in Payloads :
     /\ Len(p.v) <= 1
     /\ \A i \in 1..Len(p.v) :
          /\ p.v[i][1] = "t1"
          /\ p.v[i][2].t = "list" /\ Len(p.v[i][2].v) = 1 /\ p.v[i][2].v[1].t = "dict"}

\* the oracles a request can meet: for each database of the backend its dbtype
\* selects, no failure, or a failure of the k-th backend call of the request
\* (none, when the request makes fewer calls); a request of an unsupported
\* dbtype meets no backend
Oracles(connection) ==
  LET dbtype == NormalizeDbType(connection.dbtype)
      of(dbs, errs) ==
        UNION {{Unfailing(d)} \cup
                 {[db |-> d, fail_at |-> k, err |-> e] :
                    k \in 1..MaxCalls, e \in errs} :
               d \in dbs}
  IN IF dbtype = Postgresql THEN of(PgDatabases, PgErrors)
     ELSE IF dbtype = Mysql THEN of(MysqlDatabases, MysqlErrors)
     ELSE IF dbtype = Mongodb THEN of(MongoDatabases, MongoErrors)
     ELSE {Unfailing(<<>>)}

\* connect_database over every request and oracle of the model
ConnectTable == [c \in AllConnections |-> [o \in Oracles(c) |-> connect_database(c, o)]]

-----------------------------------------------------------------------------
(* The session registry's handlers.  Each is one coroutine without an     *)
(* await, so each runs from request to response in one step.              *)

\* FastAPI checks the body against the handler's annotation,
\* Dict[str, List[Dict[str, Any]]], before it calls the handler
BodyConforms(schema) ==
  /\ schema.t = "dict"
  /\ \A i \in 1..Len(schema.v) :
       /\ schema.v[i][2].t = "list"
       /\ \A j \in 1..Len(schema.v[i][2].v) : schema.v[i][2].v[j].t = "dict"

\* FastAPI's reply to a body that does not conform
UnprocessableEntity ==
  [status |-> 422, body |-> [detail |-> <<"validation error">>]]

\* for idx, column in enumerate(columns), from the column at place i on:
\* the first HTTPException raised, <<>> when none is
RECURSIVE ValidateColumns(_, _, _)
ValidateColumns(table_name, columns, i) ==
  IF i > Len(columns) THEN <<>>
  ELSE IF columns[i].t /= "dict"
    THEN <<HTTPException(400, <<"Invalid column definition at index ", i - 1,
                                " in table ", table_name>>)>>
  ELSE IF ~HasKey(columns[i], "column_name")
    THEN <<HTTPException(400, <<"Missing 'column_name' in column at index ", i - 1,
                                " in table ", table_name>>)>>
  ELSE ValidateColumns(table_name, columns, i + 1)

\* for table_name, columns in schema.items(), from the item at place k on
RECURSIVE ValidateSchema(_, _)
ValidateSchema(schema, k) ==
  IF k > Len(schema.v) THEN <<>>
  ELSE LET table_name == schema.v[k][1]
           columns == schema.v[k][2]
       IN IF columns.t /= "list"
            THEN <<HTTPException(400, <<"Invalid schema for table ", table_name,
                                        ". Expected a list of columns.">>)>>
            ELSE LET e == ValidateColumns(table_name, columns.v, 1)
                 IN IF e /= <<>> THEN e ELSE ValidateSchema(schema, k + 1)

\* m.setdefault(k, val)
MapSetDefault(m, k, val) == [x \in DOMAIN m \cup {k} |-> IF x \in DOMAIN m THEN m[x] ELSE val]

\* m.clear()
MapClear(m, k) == [x \in {} |-> m[x]]

\* m[k] = val, and del m[k], on a registry map
MapSet(m, k, val) == [x \in DOMAIN m \cup {k} |-> IF x = k THEN val ELSE m[x]]
MapDel(m, k) == [x \in DOMAIN m \ {k} |-> m[x]]

\* the keys of a registry map as a list; the order of the keys is not modelled
KeyList(m) ==
  CHOOSE f \in [1..Cardinality(DOMAIN m) -> DOMAIN m] : \A k \in DOMAIN m : \E i \in DOMAIN f : f[i] = k

\* the session id a request names
Target(e) == IF e.op = "connectDB" THEN SessionId(e.req) ELSE e.req.session_id

Nothing == [op |-> "none", by |-> "", dbtype |-> <<>>, schema_info |-> JNull]

\* the request before this one, when it changed the session this one names:
\* its operation and, for a connect, its user and dbtype
AfterOp(session_id) ==
  IF /\ ev.status = 200
     /\ ev.op \in {"connectDB", "setsessionSchema", "delete_session"}
     /\ Target(ev) = session_id
    THEN [op |-> ev.op,
          by |-> IF ev.op = "connectDB" THEN ev.req.username ELSE "",
          dbtype |-> IF ev.op = "connectDB" THEN ev.req.dbtype ELSE <<>>,
          schema_info |-> JNull]
    ELSE Nothing

\* the same, with the schema that request stored
After(session_id) ==
  IF /\ ev.status = 200
     /\ ev.op \in {"connectDB", "setsessionSchema"}
     /\ Target(ev) = session_id
    THEN [AfterOp(session_id) EXCEPT
            !.schema_info = IF ev.op = "connectDB" THEN ev.body.schema_info ELSE ev.req.schema]
    ELSE AfterOp(session_id)

\* the request before this one, when it changed a session
AfterAny ==
  IF ev.status = 200 /\ ev.op \in {"connectDB", "setsessionSchema", "delete_session"}
    THEN AfterOp(Target(ev)) ELSE Nothing

\* what the last request was, how it ended, what it met at the backend, and
\* what it came after
Event(op, req, resp, conn, after) ==
  [op |-> op, req |-> req, status |-> resp.status, body |-> resp.body,
   invoked |-> conn.invoked, opened |-> conn.opened, released |-> conn.released,
   calls |-> conn.calls, failed |-> conn.failed, backend |-> conn.backend, after |-> after]

NoBackend == [db |-> <<>>, err |-> NoError]

NoConnector(op, req, resp, after) ==
  Event(op, req, resp,
        [invoked |-> <<>>, opened |-> 0, released |-> 0, calls |-> 0, failed |-> "",
         backend |-> NoBackend],
        after)

\* what a connect call met: the content of the backend, and the error the
\* backend raised, if it raised one
Met(r, o) ==
  [invoked |-> r.invoked, opened |-> r.opened, released |-> r.released,
   calls |-> r.calls, failed |-> r.failed,
   backend |-> [db |-> o.db, err |-> IF r.failed = "" THEN NoError ELSE o.err]]

\* what a connect call leaves behind: r is what connect_database came to
Connected(connection, o, r, resp) ==
  /\ IF r.put /= <<>>
       THEN /\ db_connections' = MapSet(db_connections, r.put[1].session_id, r.put[1].connection)
            /\ session_schemas' = MapSet(session_schemas, r.put[1].session_id, r.put[1].schema)
       ELSE UNCHANGED registry
  /\ ev' = Event("connectDB", connection, resp, Met(r, o), After(SessionId(connection)))
  /\ live' = IF resp.status = 200 THEN live \cup {resp.body.session_id} ELSE live

\* POST /connectDB
ConnectDB(connection, o) ==
  Connected(connection, o, ConnectTable[connection][o],
            Response(ConnectTable[connection][o].completion))

\* POST /setsessionSchema
set_session_schema(session_id, schema) ==
  LET req == [session_id |-> session_id, schema |-> schema]
  IN /\ live' = live
     /\ IF ~BodyConforms(schema)
          THEN /\ ev' = NoConnector("setsessionSchema", req, UnprocessableEntity,
                                      AfterOp(session_id))
               /\ UNCHANGED registry
        ELSE IF session_id \notin DOMAIN db_connections
          THEN /\ ev' = NoConnector("setsessionSchema", req,
                          Response(Raise(HTTPException(404,
                            <<"Session not found. Please connect to database first.">>))),
                          AfterOp(session_id))
               /\ UNCHANGED registry
        ELSE IF ValidateSchema(schema, 1) /= <<>>
          THEN /\ ev' = NoConnector("setsessionSchema", req,
                          Response(Raise(ValidateSchema(schema, 1)[1])), AfterOp(session_id))
               /\ UNCHANGED registry
        ELSE /\ session_schemas' = MapSet(session_schemas, session_id, schema)
             /\ db_connections' = db_connections
             /\ ev' = NoConnector("setsessionSchema", req,
                        Response(Return([status |-> "success",
                                         message |-> "Session schema set successfully",
                                         session_id |-> session_id,
                                         tables |-> Keys(schema)])),
                        AfterOp(session_id))

\* GET /sessions
get_active_sessions ==
  LET ids == KeyList(db_connections)
  IN /\ ev' = NoConnector("sessions", <<>>,
                Response(Return(
                  [active_sessions |-> ids,
                   session_details |->
                     [i \in 1..Len(ids) |->
                        [session_id |-> ids[i],
                         dbtype |-> db_connections[ids[i]].dbtype,
                         host |-> db_connections[ids[i]].host,
                         port |-> db_connections[ids[i]].port,
                         schema |-> db_connections[ids[i]].schema,
                         has_schema_defined |-> ids[i] \in DOMAIN session_schemas]]])),
                AfterAny)
     /\ UNCHANGED <<registry, live>>

\* GET /session/{session_id}/schema
get_session_schema(session_id) ==
  /\ ev' = NoConnector("get_session_schema", [session_id |-> session_id],
             IF session_id \notin DOMAIN db_connections
               THEN Response(Raise(HTTPException(404, <<"Session not found">>)))
             ELSE IF session_id \notin DOMAIN session_schemas
               THEN Response(Raise(HTTPException(404, <<"Session schema not defined">>)))
             ELSE Response(Return(
                    [session_id |-> session_id,
                     schema |-> session_schemas[session_id],
                     connection_info |->
                       [dbtype |-> db_connections[session_id].dbtype,
                        host |-> db_connections[session_id].host,
                        schema |-> db_connections[session_id].schema]])),
             After(session_id))
  /\ UNCHANGED <<registry, live>>

\* DELETE /session/{session_id}
delete_session(session_id) ==
  IF session_id \notin DOMAIN db_connections
    THEN /\ ev' = NoConnector("delete_session", [session_id |-> session_id],
                    Response(Raise(HTTPException(404, <<"Session not found">>))),
                    AfterOp(session_id))
         /\ UNCHANGED <<registry, live>>
    ELSE /\ db_connections' = MapDel(db_connections, session_id)
         /\ session_schemas' = IF session_id \in DOMAIN session_schemas
                                 THEN MapDel(session_schemas, session_id)
                                 ELSE session_schemas
         /\ ev' = NoConnector("delete_session", [session_id |-> session_id],
                    Response(Return(
                      [status |-> "success",
                       message |-> <<"Session ", session_id, " deleted successfully">>])),
                    AfterOp(session_id))
         /\ live' = live \ {session_id}

\* GET /health
health_check ==
  /\ ev' = NoConnector("health", <<>>,
             Response(Return(
               [status |-> "healthy",
                active_sessions |-> Cardinality(DOMAIN db_connections),
                configured_schemas |-> Cardinality(DOMAIN session_schemas),
                supported_databases |-> <<"postgresql", "mysql", "mongodb">>])),
             AfterAny)
  /\ UNCHANGED <<registry, live>>

-----------------------------------------------------------------------------
(* Requests in flight.  The handlers are coroutines of one event loop: a    *)
(* coroutine that runs keeps running until it awaits or ends, and only    *)
(* then can another one start or go on.                                   *)

MaxTasks == 2

Tasks == 1..MaxTasks

\* a request in flight: its handler, the place it has come to, its arguments,
\* the backend it meets and the number of backend calls that have come back
Coroutine(kind, pc, req, o, n) == [kind |-> kind, pc |-> pc, req |-> req, o |-> o, n |-> n]

NoCoroutine == Coroutine("none", "", <<>>, <<>>, 0)

\* nothing runs and nothing is in flight.  stale, deleted, writer and set_since
\* are history: the connect calls that were in flight when a DELETE of their
\* session succeeded, the sessions deleted and not stored since by a connect
\* call that came after the DELETE, the connect call in flight whose write of a
\* session is the last one, and the sessions whose schema was set since then
Quiet ==
  [running |-> 0, tasks |-> [t \in Tasks |-> NoCoroutine],
   stale |-> {}, deleted |-> {}, writer |-> [x \in {} |-> 0], set_since |-> {}]

\* a request that arrives takes the first free place
Free(t) ==
  /\ loop.tasks[t].kind = "none"
  /\ \A u \in Tasks : loop.tasks[u].kind = "none" => t <= u

\* a loop that lets another coroutine in after every statement
Preempted(t) == 0

\* a coroutine that has not come to an await keeps the loop
Holds(t) == t

\* the awaits of a connector after its registry writes: await conn.close() of
\* connect_postgresql; conn.close() and client.close() are plain calls
AwaitsAfterPut(invoked) == IF invoked = <<"connect_postgresql">> THEN 1 ELSE 0

\* the number of backend calls after which a connect call writes the registry
PutAt(r) == r.calls - AwaitsAfterPut(r.invoked)

\* a step of a coroutine that sends no response
Silent == NoConnector("none", <<>>, [status |-> 0, body |-> <<>>], Nothing)

\* the end of a request: its response, and its place is free again
Finish(t, event, l) ==
  /\ ev' = event
  /\ loop' = [l EXCEPT !.running = 0, !.tasks[t] = NoCoroutine, !.stale = @ \ {t},
                       !.writer = [x \in DOMAIN @ |-> IF @[x] = t THEN 0 ELSE @[x]]]

\* the response of a connect call
ConnectEvent(c, r) == Event("connectDB", c.req, Response(r.completion), Met(r, c.o), Nothing)

\* a connect call goes on after its n-th backend call: it ends, or it awaits
\* the next call
GoOn(t, c, r) ==
  IF c.n = r.calls
    THEN /\ Finish(t, ConnectEvent(c, r), loop)
         /\ live' = IF Response(r.completion).status = 200
                      THEN live \cup {SessionId(c.req)} ELSE live
    ELSE /\ loop' = [loop EXCEPT !.running = 0, !.tasks[t] = c]
         /\ ev' = Silent
         /\ live' = live

\* db_connections[session_id] = connection.dict(), when the n-th backend call
\* was the last one of the introspection; session_schemas is written next
PutConnection(t, c, r) ==
  /\ db_connections' = MapSet(db_connections, r.put[1].session_id, r.put[1].connection)
  /\ loop' = [loop EXCEPT
       !.running = Holds(t),
       !.tasks[t] = [c EXCEPT !.pc = "put_schema"],
       !.deleted = IF t \in loop.stale THEN @ ELSE @ \ {r.put[1].session_id},
       !.writer = MapSet(@, r.put[1].session_id, t),
       !.set_since = @ \ {r.put[1].session_id}]
  /\ ev' = Silent
  /\ UNCHANGED <<session_schemas, live>>

\* POST /connectDB arrives: connect_database runs up to the first await
BeginConnect(t, connection, o, r) ==
  /\ loop.running = 0 /\ Free(t)
  /\ GoOn(t, Coroutine("connectDB", "await", connection, o, 0), r)
  /\ UNCHANGED registry

\* the backend call a connect call awaits comes back, or raises
Resume(t, c, r) ==
  /\ loop.running = 0 /\ c.pc = "await"
  /\ IF r.put /= <<>> /\ c.n + 1 = PutAt(r)
       THEN PutConnection(t, [c EXCEPT !.n = @ + 1], r)
       ELSE GoOn(t, [c EXCEPT !.n = @ + 1], r) /\ UNCHANGED registry

\* session_schemas[session_id] = table_info, and on to the finally clause
PutSchema(t, c, r) ==
  /\ loop.running = Holds(t) /\ c.pc = "put_schema"
  /\ session_schemas' = MapSet(session_schemas, r.put[1].session_id, r.put[1].schema)
  /\ db_connections' = db_connections
  /\ GoOn(t, [c EXCEPT !.pc = "await"], r)

\* POST /setsessionSchema arrives: the body is checked, then
\* 'if session_id not in db_connections'
BeginSet(t, session_id, schema) ==
  /\ loop.running = 0 /\ Free(t)
  /\ UNCHANGED <<registry, live>>
  /\ LET req == [session_id |-> session_id, schema |-> schema]
     IN IF ~BodyConforms(schema)
          THEN Finish(t, NoConnector("setsessionSchema", req, UnprocessableEntity, Nothing), loop)
        ELSE IF session_id \notin DOMAIN db_connections
          THEN Finish(t, NoConnector("setsessionSchema", req,
                           Response(Raise(HTTPException(404,
                             <<"Session not found. Please connect to database first.">>))),
                           Nothing), loop)
        ELSE /\ loop' = [loop EXCEPT !.running = Holds(t),
                                     !.tasks[t] = Coroutine("setsessionSchema", "write", req, <<>>, 0)]
             /\ ev' = Silent

\* the loop over the tables, and 'session_schemas[session_id] = schema'
WriteSchema(t, c) ==
  /\ loop.running = Holds(t) /\ c.kind = "setsessionSchema" /\ c.pc = "write"
  /\ UNCHANGED <<db_connections, live>>
  /\ IF ValidateSchema(c.req.schema, 1) /= <<>>
       THEN /\ Finish(t, NoConnector("setsessionSchema", c.req,
                           Response(Raise(ValidateSchema(c.req.schema, 1)[1])), Nothing), loop)
            /\ session_schemas' = session_schemas
       ELSE /\ session_schemas' = MapSet(session_schemas, c.req.session_id, c.req.schema)
            /\ Finish(t, NoConnector("setsessionSchema", c.req,
                           Response(Return([status |-> "success",
                                            message |-> "Session schema set successfully",
                                            session_id |-> c.req.session_id,
                                            tables |-> Keys(c.req.schema)])),
                           Nothing),
                      [loop EXCEPT !.set_since = @ \cup {c.req.session_id}])

\* DELETE /session/{session_id} arrives: 'if session_id not in db_connections'
BeginDelete(t, session_id) ==
  /\ loop.running = 0 /\ Free(t)
  /\ UNCHANGED <<registry, live>>
  /\ IF session_id \notin DOMAIN db_connections
       THEN Finish(t, NoConnector("delete_session", [session_id |-> session_id],
                        Response(Raise(HTTPException(404, <<"Session not found">>))),
                        Nothing), loop)
       ELSE /\ loop' = [loop EXCEPT
                  !.running = Holds(t),
                  !.tasks[t] = Coroutine("delete_session", "del_connection",
                                         [session_id |-> session_id], <<>>, 0)]
            /\ ev' = Silent

\* del db_connections[session_id]
DelConnection(t, c) ==
  /\ loop.running = Holds(t) /\ c.kind = "delete_session" /\ c.pc = "del_connection"
  /\ db_connections' = MapDel(db_connections, c.req.session_id)
  /\ loop' = [loop EXCEPT !.running = Holds(t), !.tasks[t] = [c EXCEPT !.pc = "del_schema"]]
  /\ ev' = Silent
  /\ UNCHANGED <<session_schemas, live>>

\* the connect calls in flight for a session
InFlight(session_id) ==
  {u \in Tasks : loop.tasks[u].kind = "connectDB" /\ SessionId(loop.tasks[u].req) = session_id}

\* a delete that leaves the schema of the session where it is
KeepSchema(schemas, session_id) == schemas

\* if session_id in session_schemas: del session_schemas[session_id]
WithoutSchema(schemas, session_id) ==
  IF session_id \in DOMAIN schemas THEN MapDel(schemas, session_id) ELSE schemas

\* the second removal, and the response
DelSchema(t, c) ==
  /\ loop.running = Holds(t) /\ c.kind = "delete_session" /\ c.pc = "del_schema"
  /\ session_schemas' = WithoutSchema(session_schemas, c.req.session_id)
  /\ db_connections' = db_connections
  /\ live' = live \ {c.req.session_id}
  /\ Finish(t, NoConnector("delete_session", c.req,
                 Response(Return(
                   [status |-> "success",
                    message |-> <<"Session ", c.req.session_id, " deleted successfully">>])),
                 Nothing),
            [loop EXCEPT !.stale = @ \cup InFlight(c.req.session_id),
                         !.deleted = @ \cup {c.req.session_id},
                         !.set_since = @ \ {c.req.session_id}])

\* a handler without an await and without a registry write, served at once
Read(handler) ==
  /\ loop.running = 0
  /\ handler
  /\ UNCHANGED loop

-----------------------------------------------------------------------------
(* The state machine *)

Empty == [x \in {} |-> <<>>]

Init ==
  /\ db_connections = Empty
  /\ session_schemas = Empty
  /\ ev = NoConnector("start", <<>>, [status |-> 0, body |-> <<>>], Nothing)
  /\ live = {}
  /\ loop = Quiet

\* one request at a time, each served from its start to its response
Serve(connections, session_ids, payloads) ==
  \/ \E connection \in connections : \E o \in Oracles(connection) :
        ConnectDB(connection, o) /\ UNCHANGED loop
  \/ \E session_id \in session_ids : \E schema \in payloads :
        set_session_schema(session_id, schema) /\ UNCHANGED loop
  \/ get_active_sessions /\ UNCHANGED loop
  \/ \E session_id \in session_ids : get_session_schema(session_id) /\ UNCHANGED loop
  \/ \E session_id \in session_ids : delete_session(session_id) /\ UNCHANGED loop
  \/ health_check /\ UNCHANGED loop

\* every connection request, few schema payloads
Next == Serve(Connections, SessionIds, FewPayloads)

Spec == Init /\ [][Next]_vars

\* few connection requests, every schema payload
NextSchema == Serve(FewConnections, FewSessionIds, Payloads)

SpecSchema == Init /\ [][NextSchema]_vars

\* requests in flight together: two connection requests for one session id,
\* one of each relational family, against a database without tables
ConcurrentConnections ==
  {c \in Connections :
     /\ c.schema = <<"a">>
     /\ \/ c.username = "alice" /\ NormalizeDbType(c.dbtype) = Postgresql
        \/ c.username = "bob" /\ NormalizeDbType(c.dbtype) = Mysql}

\* the backend answers every call, or the release of the connection raises
ConcurrentOracles(connection) ==
  {o \in Oracles(connection) :
     /\ o.db.tables = <<>>
     /\ \/ o = Unfailing(o.db)
        \/ o.err.cls = "OSError" /\ ConnectTable[connection][o].failed = "close"}

ConcurrentSessionIds == {SessionId(c) : c \in ConcurrentConnections}

\* a schema with one table of one named column
ConcurrentPayloads == {p \in FewPayloads : Len(p.v) = 1 /\ ValidateSchema(p, 1) = <<>>}

NextConcurrent ==
  \/ \E t \in Tasks : \E connection \in ConcurrentConnections :
       \E o \in ConcurrentOracles(connection) :
         BeginConnect(t, connection, o, ConnectTable[connection][o])
  \/ \E t \in Tasks :
       /\ loop.tasks[t].kind = "connectDB"
       /\ Resume(t, loop.tasks[t], ConnectTable[loop.tasks[t].req][loop.tasks[t].o])
  \/ \E t \in Tasks :
       /\ loop.tasks[t].kind = "connectDB"
       /\ PutSchema(t, loop.tasks[t], ConnectTable[loop.tasks[t].req][loop.tasks[t].o])
  \/ \E t \in Tasks : \E session_id \in ConcurrentSessionIds : \E schema \in ConcurrentPayloads :
       BeginSet(t, session_id, schema)
  \/ \E t \in Tasks : WriteSchema(t, loop.tasks[t])
  \/ \E t \in Tasks : \E session_id \in ConcurrentSessionIds : BeginDelete(t, session_id)
  \/ \E t \in Tasks : DelConnection(t, loop.tasks[t])
  \/ \E t \in Tasks : DelSchema(t, loop.tasks[t])
  \/ Read(get_active_sessions)
  \/ \E session_id \in ConcurrentSessionIds : Read(get_session_schema(session_id))
  \/ Read(health_check)

SpecConcurrent == Init /\ [][NextConcurrent]_vars

-----------------------------------------------------------------------------
(* Properties of the connect call *)

\* C1: a connectDB call whose dbtype, trimmed and lower-cased, is none of
\* postgresql, mysql and mongodb is answered with HTTP 400, invokes no
\* connector, opens no backend connection and leaves the registry as it was.
C1_UnsupportedDbTypeRejected ==
  [][(ev'.op = "connectDB" /\ NormalizeDbType(ev'.req.dbtype) \notin SupportedDatabases)
       => /\ ev'.status = 400
          /\ ev'.body.status_code = 400
          /\ ev'.invoked = <<>>
          /\ ev'.opened = 0 /\ ev'.calls = 0
          /\ db_connections' = db_connections
          /\ session_schemas' = session_schemas]_vars

\* an unsupported dbtype was refused while the session it names is registered
C1_Witness ==
  /\ ev.op = "connectDB"
  /\ NormalizeDbType(ev.req.dbtype) \notin SupportedDatabases
  /\ ev.status = 400
  /\ SessionId(ev.req) \in DOMAIN db_connections

\* C2: a successful connectDB call gets the session id of every registered
\* session of the same host, port and schema, whatever dbtype and credentials
\* those were registered with, so that no second session of the target comes
\* about; after it the session's connection parameters and schema are those
\* of this call.
C2_SameTargetSameSession ==
  [][(ev'.op = "connectDB" /\ ev'.status = 200)
       => LET session_id == ev'.body.session_id
          IN /\ \A k \in DOMAIN db_connections :
                   (/\ db_connections[k].host = ev'.req.host
                    /\ db_connections[k].port = ev'.req.port
                    /\ db_connections[k].schema = ev'.req.schema) => k = session_id
             /\ (ev.op = "connectDB" /\ ev.status = 200 /\ ev.req.host = ev'.req.host
                   /\ ev.req.port = ev'.req.port /\ ev.req.schema = ev'.req.schema)
                  => (ev.body.session_id = session_id
                        /\ DOMAIN db_connections' = DOMAIN db_connections)
             /\ DOMAIN db_connections' = DOMAIN db_connections \cup {session_id}
             /\ DOMAIN session_schemas' = DOMAIN session_schemas \cup {session_id}
             /\ db_connections'[session_id] = ev'.req
             /\ session_schemas'[session_id] = ev'.body.schema_info]_vars

\* a second successful connect to a target, directly after a successful connect
\* of another user to it, with another dbtype and another schema found
C2_Witness ==
  /\ ev.op = "connectDB" /\ ev.status = 200
  /\ ev.after.op = "connectDB" /\ ev.after.by /= ev.req.username
  /\ ev.after.dbtype /= ev.req.dbtype
  /\ ev.after.schema_info /= ev.body.schema_info
  /\ db_connections[ev.body.session_id] = ev.req
  /\ Cardinality(DOMAIN db_connections) = 1

\* C3: a successful connectDB call answers status success, the session id
\* host:port:schema of its request and the schema it stored; a GET of the
\* session's schema directly after it returns that schema, and a GET /sessions
\* directly after it lists the session with the request's dbtype, host, port
\* and schema.
C3_ConnectResultIsStored ==
  [][/\ (ev'.op = "connectDB" /\ ev'.status = 200)
          => /\ ev'.body.status = "success"
             /\ ev'.body.session_id =
                  ev'.req.host \o <<":">> \o IntStr(ev'.req.port) \o <<":">> \o ev'.req.schema
             /\ ev'.body.session_id \in DOMAIN session_schemas'
             /\ session_schemas'[ev'.body.session_id] = ev'.body.schema_info
     /\ (ev.op = "connectDB" /\ ev.status = 200 /\ ev'.op = "get_session_schema"
           /\ ev'.req.session_id = ev.body.session_id)
          => /\ ev'.status = 200
             /\ ev'.body.schema = ev.body.schema_info
     /\ (ev.op = "connectDB" /\ ev.status = 200 /\ ev'.op = "sessions")
          => /\ ev'.status = 200
             /\ \E i \in DOMAIN ev'.body.active_sessions :
                  ev'.body.active_sessions[i] = ev.body.session_id
             /\ \E i \in DOMAIN ev'.body.session_details :
                  LET d == ev'.body.session_details[i]
                  IN /\ d.session_id = ev.body.session_id
                     /\ d.dbtype = ev.req.dbtype /\ d.host = ev.req.host
                     /\ d.port = ev.req.port /\ d.schema = ev.req.schema]_vars

\* the schema of a session was read directly after a successful connect that
\* found tables, and is the one with those tables
C3_Witness ==
  /\ ev.op = "get_session_schema" /\ ev.status = 200
  /\ ev.after.op = "connectDB"
  /\ ev.after.schema_info = ev.body.schema
  /\ ev.body.schema.v /= <<>>

-----------------------------------------------------------------------------
(* Properties of the schema payload *)

\* a payload with a table whose value is no list, or with a column entry that
\* is no object or has no column_name
Malformed(schema) ==
  \E i \in 1..Len(schema.v) :
     \/ schema.v[i][2].t /= "list"
     \/ \E j \in 1..Len(schema.v[i][2].v) :
           \/ schema.v[i][2].v[j].t /= "dict"
           \/ ~HasKey(schema.v[i][2].v[j], "column_name")

\* C4: a setsessionSchema call that names a session id not in the registry is
\* answered with HTTP 404 whatever its payload, well-formed or malformed, and
\* leaves both maps as they were; a session comes into the registry only by
\* a successful connectDB call.
C4_UnknownSessionNotFound ==
  [][/\ (ev'.op = "setsessionSchema" /\ ev'.req.session_id \notin DOMAIN db_connections)
          => /\ ev'.status = 404
             /\ db_connections' = db_connections
             /\ session_schemas' = session_schemas
     /\ \A k \in (DOMAIN db_connections' \cup DOMAIN session_schemas')
                   \ DOMAIN db_connections :
          ev'.op = "connectDB" /\ ev'.status = 200 /\ ev'.body.session_id = k]_vars

\* C5: a setsessionSchema call for a registered session with a malformed
\* payload is answered with HTTP 400, whose detail names the first offending
\* table, and column index, in the payload's order, and leaves the stored
\* schema as it was.
C5_MalformedPayloadRejected ==
  [][(/\ ev'.op = "setsessionSchema"
      /\ ev'.req.session_id \in DOMAIN db_connections
      /\ Malformed(ev'.req.schema))
       => /\ ev'.status = 400
          /\ ev'.body.error = ValidateSchema(ev'.req.schema, 1)[1].detail
          /\ session_schemas' = session_schemas
          /\ db_connections' = db_connections]_vars

-----------------------------------------------------------------------------
(* Properties of the registry *)

\* C7: a successful DELETE of a session removes its connection record and its
\* schema; directly after it a GET of the session's schema, a setsessionSchema
\* for it and a second DELETE of it are answered with HTTP 404 and change
\* nothing; a DELETE of an id that is not registered is answered with HTTP 404
\* and changes nothing.
C7_DeletedSessionIsGone ==
  [][/\ (ev'.op = "delete_session" /\ ev'.status = 200)
          => /\ ev'.req.session_id \notin DOMAIN db_connections'
             /\ ev'.req.session_id \notin DOMAIN session_schemas'
     /\ (/\ ev.op = "delete_session" /\ ev.status = 200
         /\ ev'.op \in {"get_session_schema", "setsessionSchema", "delete_session"}
         /\ ev'.req.session_id = ev.req.session_id)
          => /\ ev'.status = 404
             /\ db_connections' = db_connections
             /\ session_schemas' = session_schemas
     /\ (ev'.op = "delete_session" /\ ev'.req.session_id \notin DOMAIN db_connections)
          => /\ ev'.status = 404
             /\ db_connections' = db_connections
             /\ session_schemas' = session_schemas]_vars

\* C8: GET /sessions reports as many sessions as there are session ids with a
\* successful connectDB call and no successful DELETE since; connectDB calls
\* that fail, setsessionSchema calls and reads leave the number of sessions as
\* it was.
C8_SessionCount ==
  [][/\ ev'.op = "sessions"
          => Len(ev'.body.active_sessions) = Cardinality(live')
     /\ Cardinality(DOMAIN db_connections') = Cardinality(live')
     /\ (\/ ev'.op = "connectDB" /\ ev'.status /= 200
         \/ ev'.op \in {"setsessionSchema", "sessions", "get_session_schema", "health"})
          => Cardinality(DOMAIN db_connections') = Cardinality(DOMAIN db_connections)]_vars

\* C9: a connectDB call opens at most one backend connection, and has
\* released the connection it opened when it returns, however it ends.
C9_ConnectionReleased ==
  ev.op = "connectDB" => (ev.opened <= 1 /\ ev.released = ev.opened)

\* a connect call failed in the middle of introspection, with its connection
\* open, and released it
C9_Witness ==
  /\ ev.op = "connectDB" /\ ev.status = 500
  /\ ev.failed = "columns"
  /\ ev.opened = 1 /\ ev.released = 1

\* the steps of a connector before its result is complete
IntrospectionSteps == {"connect", "ping", "schemata", "tables", "columns"}

\* C10: a connectDB call in which connecting, the liveness check, the listing
\* of schemas, tables or collections, or the fetching of a table's columns
\* raises is answered with one error response, which carries no schema, and
\* leaves the registry as it was: no session is created, and a session of the
\* same id keeps its connection parameters and schema.
C10_AllOrNothing ==
  [][(ev'.op = "connectDB" /\ ev'.failed \in IntrospectionSteps)
       => /\ ev'.status = 500
          /\ DOMAIN ev'.body = {"error", "status_code"}
          /\ db_connections' = db_connections
          /\ session_schemas' = session_schemas]_vars

\* a connect call failed at the columns of its second table while another
\* user's session of the same id was registered, and that session is as before
C10_Witness ==
  /\ ev.op = "connectDB" /\ ev.failed = "columns" /\ ev.calls >= 4
  /\ SessionId(ev.req) \in DOMAIN db_connections
  /\ db_connections[SessionId(ev.req)].username /= ev.req.username
  /\ ev.after.op = "connectDB" /\ ev.after.by /= ev.req.username
  /\ session_schemas[SessionId(ev.req)] = ev.after.schema_info

-----------------------------------------------------------------------------
(* Properties of the connectors *)

\* the fixed prefix of a connector's error messages
FamilyPrefix(connector) ==
  CASE connector = "connect_postgresql" -> "PostgreSQL error: "
    [] connector = "connect_mysql" -> "MySQL error: "
    [] connector = "connect_mongodb" -> "MongoDB connection error: "

\* C11: a connectDB call in which connecting to the backend or a query of it
\* fails is answered with HTTP 500, whose message is the backend's error
\* message behind the fixed prefix of the backend family that was selected;
\* the dispatch layer passes the connector's error on as it is.
C11_BackendErrorPrefixed ==
  [][(ev'.op = "connectDB" /\ ev'.failed \in IntrospectionSteps)
       => /\ ev'.status = 500
          /\ ev'.body.status_code = 500
          /\ ev'.body.error = <<FamilyPrefix(ev'.invoked[1])>> \o ev'.backend.err.detail]_vars

\* the descriptor the document connector is to give for a field of a sample
DocumentColumn(field) ==
  JDict(<< <<"column_name", JStr(field[1])>>, <<"data_type", JStr(field[2])>>,
           <<"is_nullable", JStr("YES")>>, <<"default_value", JNull>>,
           <<"max_length", JNull>> >>)

\* C12: the schema a successful connectDB call of the document backend
\* returns has the listed collections as its keys; the entry of a collection
\* without a sample document is the empty list, and the entry of any other has
\* one descriptor per key of the sampled document, in the document's order,
\* with the type name of the sampled value, nullable, and with neither default
\* nor maximum length.
C12_DocumentSchema ==
  (ev.op = "connectDB" /\ ev.status = 200 /\ ev.invoked = <<"connect_mongodb">>)
    => LET db == ev.backend.db
           info == ev.body.schema_info
       IN /\ info.t = "dict"
          /\ [i \in 1..Len(info.v) |-> info.v[i][1]] = db.collections
          /\ \A i \in 1..Len(info.v) :
               LET entry == info.v[i][2]
                   doc == db.docs[i]
               IN /\ entry.t = "list"
                  /\ Len(entry.v) = Len(doc)
                  /\ \A j \in 1..Len(doc) : entry.v[j] = DocumentColumn(doc[j])

\* a connect call of the document backend succeeded on a database of a
\* collection without documents and one with a document of two fields
C12_Witness ==
  /\ ev.op = "connectDB" /\ ev.status = 200 /\ ev.invoked = <<"connect_mongodb">>
  /\ Len(ev.backend.db.collections) = 2
  /\ ev.body.schema_info.v[1][2] = JList(<<>>)
  /\ Len(ev.body.schema_info.v[2][2].v) = 2

\* the rows of a table, lowest ordinal position first
RECURSIVE RowsByOrdinal(_)
RowsByOrdinal(rows) ==
  IF rows = {} THEN <<>>
  ELSE LET first == CHOOSE r \in rows :
                      \A q \in rows : r.ordinal_position <= q.ordinal_position
       IN <<first>> \o RowsByOrdinal(rows \ {first})

\* a column list has the columns of the rows, in the order of their positions
ColumnsOf(entry, rows) ==
  /\ entry.t = "list"
  /\ Len(entry.v) = Len(rows)
  /\ \A j \in 1..Len(entry.v) :
       entry.v[j].v[1] =
         <<"column_name", RowsByOrdinal({rows[k] : k \in 1..Len(rows)})[j].column_name>>

\* a flat mapping from the tables of the names to their column lists
TablesOf(info, names, rows) ==
  /\ info.t = "dict"
  /\ [i \in 1..Len(info.v) |-> info.v[i][1]] = names
  /\ \A i \in 1..Len(info.v) : ColumnsOf(info.v[i][2], rows)

ConnectorOf(dbtype) ==
  CASE dbtype = Postgresql -> "connect_postgresql"
    [] dbtype = Mysql -> "connect_mysql"
    [] dbtype = Mongodb -> "connect_mongodb"

\* C14: a connectDB call whose dbtype is a supported name, but for letter
\* case and surrounding whitespace, invokes the connector of that family, once,
\* and no other, and that opens at most one connection, however the call ends.
C14_OneConnectorOnce ==
  (ev.op = "connectDB" /\ NormalizeDbType(ev.req.dbtype) \in SupportedDatabases)
    => /\ ev.invoked = <<ConnectorOf(NormalizeDbType(ev.req.dbtype))>>
       /\ ev.opened <= 1

\* a connect call whose dbtype has capitals and a trailing blank failed at
\* its first backend call
C14_Witness ==
  /\ ev.op = "connectDB" /\ ev.failed = "connect" /\ ev.status = 500
  /\ ev.req.dbtype /= NormalizeDbType(ev.req.dbtype)
  /\ ev.invoked = <<"connect_postgresql">>

\* C17: a successful setsessionSchema changes the stored schema of its
\* session and nothing else; a successful delete removes the two entries of
\* its session and nothing else; a successful connect writes the two entries
\* of its derived id and nothing else; GET /sessions, GET of a session's schema
\* and GET /health change nothing.
C17_Frame ==
  [][/\ (ev'.op = "setsessionSchema" /\ ev'.status = 200)
          => /\ db_connections' = db_connections
             /\ DOMAIN session_schemas' = DOMAIN session_schemas
             /\ \A k \in DOMAIN session_schemas \ {ev'.req.session_id} :
                  session_schemas'[k] = session_schemas[k]
     /\ (ev'.op = "delete_session" /\ ev'.status = 200)
          => /\ DOMAIN db_connections' = DOMAIN db_connections \ {ev'.req.session_id}
             /\ DOMAIN session_schemas' = DOMAIN session_schemas \ {ev'.req.session_id}
             /\ \A k \in DOMAIN db_connections' : db_connections'[k] = db_connections[k]
             /\ \A k \in DOMAIN session_schemas' : session_schemas'[k] = session_schemas[k]
     /\ (ev'.op = "connectDB" /\ ev'.status = 200)
          => /\ DOMAIN db_connections' = DOMAIN db_connections \cup {ev'.body.session_id}
             /\ DOMAIN session_schemas' = DOMAIN session_schemas \cup {ev'.body.session_id}
             /\ \A k \in DOMAIN db_connections \ {ev'.body.session_id} :
                  db_connections'[k] = db_connections[k]
             /\ \A k \in DOMAIN session_schemas \ {ev'.body.session_id} :
                  session_schemas'[k] = session_schemas[k]
     /\ ev'.op \in {"sessions", "get_session_schema", "health"}
          => /\ db_connections' = db_connections
             /\ session_schemas' = session_schemas]_vars

\* one of two registered sessions was deleted, and the other is there
C17_Witness ==
  /\ ev.op = "delete_session" /\ ev.status = 200
  /\ Cardinality(DOMAIN db_connections) = 1
  /\ ev.req.session_id \notin DOMAIN db_connections
  /\ DOMAIN session_schemas = DOMAIN db_connections

\* the descriptor of a row whose default is absent exactly when the backend
\* reports none
PassedThrough(row) ==
  JDict(<< <<"column_name", row.column_name>>,
           <<"data_type", row.data_type>>,
           <<"is_nullable", row.is_nullable>>,
           <<"default_value", IF row.column_default = JNull THEN JNull ELSE row.column_default>>,
           <<"max_length", row.character_maximum_length>> >>)

\* the column lists of a flat mapping are the descriptors of the rows
DescriptorsOf(info, rows) ==
  \A i \in 1..Len(info.v) :
     \A j \in 1..Len(info.v[i][2].v) :
        info.v[i][2].v[j] = PassedThrough(RowsByOrdinal({rows[k] : k \in 1..Len(rows)})[j])

\* C18: in the schema a successful connectDB call of a relational backend
\* returns, the default_value of a column is absent exactly when the backend
\* reports no default for it, and is the reported default as a string
\* otherwise, the empty string included; column_name, data_type, is_nullable
\* and max_length are those of the backend's row.
C18_DefaultValue ==
  /\ (ev.op = "connectDB" /\ ev.status = 200 /\ ev.invoked = <<"connect_mysql">>)
       => DescriptorsOf(ev.body.schema_info, ev.backend.db.columns)
  /\ (ev.op = "connectDB" /\ ev.status = 200 /\ ev.invoked = <<"connect_postgresql">>)
       => \A i \in 1..Len(ev.body.schema_info.v) :
            DescriptorsOf(ev.body.schema_info.v[i][2], ev.backend.db.columns)

-----------------------------------------------------------------------------
(* Properties of requests in flight *)

\* a coroutine that has read or written the registry and has another
\* registry access of the same run before it
Mid(c) == c.pc \in {"put_schema", "write", "del_connection", "del_schema"}

\* C15: with requests interleaving only where a handler awaits the backend,
\* the existence check and the write of setsessionSchema, the existence check
\* and the two removals of DELETE, and the two map writes of a connect call
\* are followed one by the other with no step of another request in between;
\* a setsessionSchema that stores a schema stores it for a session that is
\* registered when it is stored.
C15_RegistryMutationsSerialized ==
  [][\A t \in Tasks :
       /\ Mid(loop.tasks[t])
            => /\ loop'.tasks[t].pc /= loop.tasks[t].pc
               /\ \A u \in Tasks \ {t} :
                    /\ loop'.tasks[u].kind = loop.tasks[u].kind
                    /\ loop'.tasks[u].pc = loop.tasks[u].pc
                    /\ loop'.tasks[u].n = loop.tasks[u].n
       /\ (loop.tasks[t].pc = "write" /\ loop'.tasks[t].pc = "" /\ ev'.status = 200)
            => /\ loop.tasks[t].req.session_id \in DOMAIN db_connections
               /\ loop.tasks[t].req.session_id \in DOMAIN db_connections']_vars

\* a setsessionSchema has found its session and is about to write, while a
\* connect call waits for its backend
C15_Witness ==
  \E t, u \in Tasks :
     /\ loop.tasks[t].pc = "write"
     /\ loop.tasks[u].kind = "connectDB" /\ loop.tasks[u].pc = "await"
     /\ loop.tasks[t].req.session_id = SessionId(loop.tasks[u].req)

\* C16: a session that a DELETE removed stays absent, and a GET of its schema
\* is answered 404, until a connect call that arrived after the DELETE stores
\* it: no connect call that was in flight when the DELETE succeeded brings it
\* back.
C16_NoResurrection ==
  /\ \A x \in loop.deleted : x \notin DOMAIN db_connections
  /\ (ev.op = "get_session_schema" /\ ev.req.session_id \in loop.deleted) => ev.status = 404

\* C19: whenever no coroutine is between two statements, requests suspended at
\* an await or not, session_schemas and db_connections have the same keys; GET
\* of a session's schema is never answered 'Session schema not defined', every
\* session GET /sessions lists has has_schema_defined true, and GET /health
\* reports as many active sessions as configured schemas.
C19_SameKeys ==
  /\ loop.running = 0 => DOMAIN session_schemas = DOMAIN db_connections
  /\ ev.op = "get_session_schema"
       => (ev.status = 404 => ev.body.error = <<"Session not found">>)
  /\ ev.op = "sessions"
       => \A i \in 1..Len(ev.body.session_details) :
            ev.body.session_details[i].has_schema_defined
  /\ ev.op = "health" => ev.body.active_sessions = ev.body.configured_schemas

\* a session is listed while a connect call for it is suspended at an await
C19_Witness ==
  /\ ev.op = "sessions" /\ Len(ev.body.session_details) = 1
  /\ \E t \in Tasks : loop.tasks[t].kind = "connectDB" /\ loop.tasks[t].pc = "await"
  /\ loop.running = 0 /\ DOMAIN db_connections /= {}

\* the stored session x is what one connect call of c wrote: its parameters,
\* and the schema it introspected unless a setsessionSchema stored one since
OfOneCall(x, c, connections, schemas, set_since) ==
  \E o \in ConcurrentOracles(c) :
     /\ ConnectTable[c][o].put /= <<>>
     /\ ConnectTable[c][o].put[1].session_id = x
     /\ connections[x] = ConnectTable[c][o].put[1].connection
     /\ x \in DOMAIN schemas
     /\ x \notin set_since => schemas[x] = ConnectTable[c][o].put[1].schema

\* C20: whenever no coroutine is between two statements, every stored session
\* has the parameters of one connect call and either the schema that call
\* introspected or a schema a setsessionSchema stored after that call's write,
\* the call being the one that wrote last; and that call is a successful one:
\* no connect call ends with an error while the stored session is its own.
C20_StoredSessionOfOneCall ==
  [][/\ loop'.running = 0
          => \A x \in DOMAIN db_connections' :
               \E c \in ConcurrentConnections :
                  OfOneCall(x, c, db_connections', session_schemas', loop'.set_since)
     /\ \A t \in Tasks :
          (/\ loop.tasks[t].kind = "connectDB" /\ loop'.tasks[t].kind = "none"
           /\ ev'.status /= 200)
            => \A x \in DOMAIN loop.writer : loop.writer[x] /= t]_vars

\* C21: a connectDB call changes the registry if and only if it is answered
\* with the success response: a call answered with an error (400 or 500),
\* whatever step failed, the release of the backend connection included,
\* leaves both maps as they were, and a call answered 200 has stored its
\* connection and the schema it returns under the id it returns.
C21_RegistryWrittenIffSuccess ==
  [][ev'.op = "connectDB"
       => /\ ev'.status /= 200
               => /\ db_connections' = db_connections
                  /\ session_schemas' = session_schemas
          /\ ev'.status = 200
               => /\ ev'.body.session_id \in DOMAIN db_connections'
                  /\ db_connections'[ev'.body.session_id] = ev'.req
                  /\ ev'.body.session_id \in DOMAIN session_schemas'
                  /\ session_schemas'[ev'.body.session_id] = ev'.body.schema_info]_vars

====
